---- MODULE Spec2Model ----
(***************************************************************************)
(* Model of api/kyverno/v1/rule_types.go: the Rule type, its effect        *)
(* predicates (HasMutate, HasValidate, HasGenerate, HasVerifyImages), the  *)
(* kind accessors (MatchKinds, ExcludeKinds), ValidateRuleType,            *)
(* ValidateMathExcludeConflict and Validate.                               *)
(*                                                                         *)
(* Go values are modelled structurally, so that TLA+ equality coincides    *)
(* with reflect.DeepEqual:                                                 *)
(*   - a slice is a record [isNil, s]: a nil slice and a present slice     *)
(*     with zero entries are different values, as for reflect.DeepEqual;   *)
(*   - a map is a record [isNil, m] where m is a set of <<key, value>>     *)
(*     pairs with distinct keys;                                           *)
(*   - a *LabelSelector is a record [isNil, MatchLabels, MatchExpressions];*)
(*   - a string that wildcard.Match inspects is a sequence of characters,  *)
(*     the empty string being << >>;                                       *)
(*   - the embedded structs UserInfo and ResourceDescription are flattened *)
(*     into the record of the MatchResources / ResourceFilter that embeds  *)
(*     them (Go promotes their fields the same way).                       *)
(***************************************************************************)
EXTENDS Integers, Sequences, FiniteSets, TLC

VARIABLES rule, heap, op, errs, kinds, prevKinds, calls, matchIn, excludeIn

vars == <<rule, heap, op, errs, kinds, prevKinds, calls, matchIn, excludeIn>>

(***************************************************************************)
(* Bounds of the input space.                                              *)
(***************************************************************************)
\* longest kinds / names list drawn for a block
MaxLen == 2
\* longest any / all list drawn for a block
MaxAny == 2
\* largest spare capacity (cap - len) of the backing array of a kinds slice
MaxSpare == 2

SeqsUpTo(S, n) == UNION {[1..k -> S] : k \in 0..n}

Range(s) == {s[i] : i \in 1..Len(s)}

(***************************************************************************)
(* Go slices, maps and selectors.                                          *)
(***************************************************************************)
NilSlice == [isNil |-> TRUE, s |-> <<>>]

MkSlice(q) == [isNil |-> FALSE, s |-> q]

\* every slice over S of at most n entries: nil, present and empty, populated
SlicesOf(S, n) == {NilSlice} \cup {MkSlice(q) : q \in SeqsUpTo(S, n)}

NilMap == [isNil |-> TRUE, m |-> {}]

MkMap(pairs) == [isNil |-> FALSE, m |-> pairs]

\* m[k] of a Go map: the zero value "" when the key is missing
MapGet(mp, k) ==
    IF \E p \in mp.m : p[1] = k THEN (CHOOSE p \in mp.m : p[1] = k)[2] ELSE ""

NilSelector == [isNil |-> TRUE, MatchLabels |-> NilMap, MatchExpressions |-> NilSlice]

MkSelector(labels, exprs) ==
    [isNil |-> FALSE, MatchLabels |-> labels, MatchExpressions |-> exprs]

\* metav1.LabelSelectorRequirement
MkExpr(k, o, v) == [key |-> k, operator |-> o, values |-> v]

\* rbacv1.Subject
MkSubject(k, n) == [Kind |-> k, Name |-> n]

(***************************************************************************)
(* json.Marshal of a subject and of a match expression.  String fields     *)
(* are written as they are; the `values` list of an expression is tagged   *)
(* omitempty, so a nil list and a present list with zero entries are       *)
(* written the same way (the key is left out).                             *)
(***************************************************************************)
MarshalSubject(sub) == <<"kind", sub.Kind, "name", sub.Name>>

MarshalExpr(x) ==
    IF Len(x.values.s) = 0
    THEN <<"key", x.key, "operator", x.operator>>
    ELSE <<"key", x.key, "operator", x.operator, "values", x.values.s>>

\* sets.NewString(items...)
NewString(q) == Range(q)

\* sets.String.HasAll(items...)
HasAll(set, q) == \A i \in 1..Len(q) : q[i] \in set

(***************************************************************************)
(* wildcard.Match(pattern, name) of github.com/minio/pkg/wildcard:         *)
(* '*' stands for any run of characters, '?' for exactly one character.    *)
(***************************************************************************)
RECURSIVE deepMatchRune(_, _)
deepMatchRune(str, pattern) ==
    IF Len(pattern) = 0 THEN Len(str) = 0
    ELSE IF Head(pattern) = "*"
         THEN \/ deepMatchRune(str, Tail(pattern))
              \/ (Len(str) > 0 /\ deepMatchRune(Tail(str), pattern))
    ELSE IF Head(pattern) = "?"
         THEN Len(str) > 0 /\ deepMatchRune(Tail(str), Tail(pattern))
    ELSE /\ Len(str) > 0
         /\ Head(str) = Head(pattern)
         /\ deepMatchRune(Tail(str), Tail(pattern))

WildcardMatch(pattern, name) ==
    IF pattern = <<>> THEN name = pattern
    ELSE IF pattern = <<"*">> THEN TRUE
    ELSE deepMatchRune(name, pattern)

(***************************************************************************)
(* The zero values MatchResources{} and ResourceFilter{}.                  *)
(***************************************************************************)
EmptyResourceFilter ==
    [Roles |-> NilSlice, ClusterRoles |-> NilSlice, Subjects |-> NilSlice,
     Kinds |-> NilSlice, Name |-> <<>>, Names |-> NilSlice,
     Namespaces |-> NilSlice, Annotations |-> NilMap,
     Selector |-> NilSelector, NamespaceSelector |-> NilSelector]

EmptyMatchResources ==
    [Any |-> NilSlice, All |-> NilSlice,
     Roles |-> NilSlice, ClusterRoles |-> NilSlice, Subjects |-> NilSlice,
     Kinds |-> NilSlice, Name |-> <<>>, Names |-> NilSlice,
     Namespaces |-> NilSlice, Annotations |-> NilMap,
     Selector |-> NilSelector, NamespaceSelector |-> NilSelector]

\* Mutation{}, Validation{}, Generation{} and a populated value of each
ZeroEffect == [payload |-> ""]

SomeEffect == [payload |-> "set"]

(***************************************************************************)
(* Effect predicates.                                                      *)
(***************************************************************************)
\* HasMutate: !reflect.DeepEqual(r.Mutation, Mutation{})
HasMutate(r) == r.Mutation # ZeroEffect

\* reflect.DeepEqual(r.VerifyImages, ImageVerification{}): the operands are a
\* []*ImageVerification and an ImageVerification; DeepEqual of values of
\* distinct types is false whatever the slice holds
DeepEqualSliceToImageVerification(images) == FALSE

\* HasVerifyImages: r.VerifyImages != nil && !reflect.DeepEqual(...)
HasVerifyImages(r) ==
    ~r.VerifyImages.isNil /\ ~DeepEqualSliceToImageVerification(r.VerifyImages)

\* HasValidate: !reflect.DeepEqual(r.Validation, Validation{})
HasValidate(r) == r.Validation # ZeroEffect

\* HasGenerate: !reflect.DeepEqual(r.Generation, Generation{})
HasGenerate(r) == r.Generation # ZeroEffect

(***************************************************************************)
(* Error lists.  A field.ErrorList is a sequence of messages.              *)
(***************************************************************************)
NoOperationErr == "No operation defined in the rule"

MultipleOperationsErr == "Multiple operations defined in the rule"

EmptySetErr == "Rule is matching an empty set"

\* ValidateRuleType: count the effects that are set
ValidateRuleType(r) ==
    LET ruleTypes == <<HasMutate(r), HasValidate(r), HasGenerate(r), HasVerifyImages(r)>>
        count == Cardinality({i \in 1..4 : ruleTypes[i]})
    IN  IF count = 0 THEN <<NoOperationErr>>
        ELSE IF count # 1 THEN <<MultipleOperationsErr>>
        ELSE <<>>

(***************************************************************************)
(* MatchKinds / ExcludeKinds.  A Go slice is a window [1..len] on a        *)
(* backing array of cap entries.  append(s, xs...) writes xs into the      *)
(* array behind the window when cap - len has room for it, and otherwise   *)
(* copies the window into a fresh array.  `base` follows the contents of   *)
(* the array the rule's own Kinds slice points to, `shared` tells whether  *)
(* the slice being built still points to that array.                       *)
(***************************************************************************)
GoAppend(sl, xs) ==
    IF sl.len + Len(xs) <= Len(sl.arr)
    THEN LET written == [i \in 1..Len(sl.arr) |->
                            IF i > sl.len /\ i <= sl.len + Len(xs)
                            THEN xs[i - sl.len] ELSE sl.arr[i]]
         IN  [arr |-> written, len |-> sl.len + Len(xs), shared |-> sl.shared,
              base |-> IF sl.shared THEN written ELSE sl.base]
    ELSE [arr |-> SubSeq(sl.arr, 1, sl.len) \o xs, len |-> sl.len + Len(xs),
          shared |-> FALSE, base |-> sl.base]

\* for _, value := range entries { kinds = append(kinds, value.Kinds...) }
RECURSIVE AppendKinds(_, _)
AppendKinds(sl, entries) ==
    IF entries = <<>> THEN sl
    ELSE AppendKinds(GoAppend(sl, Head(entries).Kinds.s), Tail(entries))

\* the slice r.<block>.Kinds: the window on its backing array
KindsSlice(block, array) ==
    [arr |-> array, len |-> Len(block.Kinds.s), shared |-> TRUE, base |-> array]

\* variant of MatchKinds that walks `any` before `all`
MatchKinds_AnyFirst(r, h) ==
    LET matchKinds == KindsSlice(r.MatchResources, h.matchKinds)
        afterAny == AppendKinds(matchKinds, r.MatchResources.Any.s)
    IN  AppendKinds(afterAny, r.MatchResources.All.s)

MatchKinds(r, h) ==
    LET matchKinds == KindsSlice(r.MatchResources, h.matchKinds)
        afterAll == AppendKinds(matchKinds, r.MatchResources.All.s)
    IN  AppendKinds(afterAll, r.MatchResources.Any.s)

ExcludeKinds(r, h) ==
    LET excludeKinds == KindsSlice(r.ExcludeResources, h.excludeKinds)
        afterAll == AppendKinds(excludeKinds, r.ExcludeResources.All.s)
    IN  AppendKinds(afterAll, r.ExcludeResources.Any.s)

\* the entries a slice shows: its window on the array
Window(sl) == SubSeq(sl.arr, 1, sl.len)

(***************************************************************************)
(* ValidateMathExcludeConflict.                                            *)
(***************************************************************************)
\* lines 142-148: some match.any entry is DeepEqual to some exclude.any entry
AnyEntryShared(m, e) ==
    \E i \in 1..Len(m.Any.s) : \E j \in 1..Len(e.Any.s) : m.Any.s[i] = e.Any.s[j]

\* lines 215-221: some match name is matched by some exclude pattern
NamesConflict(matchSlice, excludeSlice) ==
    \E i \in 1..Len(matchSlice) : \E j \in 1..Len(excludeSlice) :
        WildcardMatch(excludeSlice[j], matchSlice[i])

\* the marshalled matchExpressions of a selector (empty for a nil selector)
SelectorMatchExpressions(sel) ==
    IF ~sel.isNil
    THEN {MarshalExpr(sel.MatchExpressions.s[i]) : i \in 1..Len(sel.MatchExpressions.s)}
    ELSE {}

\* lines 235-255 (and 258-278): the selector block returns "no conflict"
SelectorReturns(ms, es) ==
    LET excludeExprs == SelectorMatchExpressions(es)
    IN  \/ /\ Cardinality(excludeExprs) > 0
           /\ \/ Len(ms.MatchExpressions.s) = 0
              \/ \E i \in 1..Len(ms.MatchExpressions.s) :
                    MarshalExpr(ms.MatchExpressions.s[i]) \notin excludeExprs
        \/ /\ Cardinality(es.MatchLabels.m) > 0
           /\ \/ Cardinality(ms.MatchLabels.m) = 0
              \/ \E p \in ms.MatchLabels.m : MapGet(es.MatchLabels, p[1]) # p[2]

\* variant of the guard of line 137 that asks for both `all` lists
AllPopulated_BothSides(m, e) == Len(e.All.s) > 0 /\ Len(m.All.s) > 0

\* line 137: the `all` list of either block is populated
AllPopulated(m, e) == Len(e.All.s) > 0 \/ Len(m.All.s) > 0

ValidateMathExcludeConflict(r) ==
    LET m == r.MatchResources
        e == r.ExcludeResources
        excludeRoles == NewString(e.Roles.s)
        excludeClusterRoles == NewString(e.ClusterRoles.s)
        excludeKinds == NewString(e.Kinds.s)
        excludeNamespaces == NewString(e.Namespaces.s)
        excludeSubjects == {MarshalSubject(e.Subjects.s[i]) : i \in 1..Len(e.Subjects.s)}
    IN  IF AllPopulated(m, e) THEN <<>>
        ELSE IF Len(m.Any.s) > 0 /\ Len(e.Any.s) > 0
             THEN (IF AnyEntryShared(m, e) THEN <<EmptySetErr>> ELSE <<>>)
        ELSE IF e = EmptyMatchResources THEN <<>>
        ELSE IF /\ Cardinality(excludeRoles) > 0
                /\ (Len(m.Roles.s) = 0 \/ ~HasAll(excludeRoles, m.Roles.s))
             THEN <<>>
        ELSE IF /\ Cardinality(excludeClusterRoles) > 0
                /\ (Len(m.ClusterRoles.s) = 0 \/ ~HasAll(excludeClusterRoles, m.ClusterRoles.s))
             THEN <<>>
        ELSE IF /\ Cardinality(excludeSubjects) > 0
                /\ \/ Len(m.Subjects.s) = 0
                   \/ \E i \in 1..Len(m.Subjects.s) :
                         MarshalSubject(m.Subjects.s[i]) \notin excludeSubjects
             THEN <<>>
        ELSE IF e.Name # <<>> /\ ~WildcardMatch(e.Name, m.Name) THEN <<>>
        ELSE IF Len(e.Names.s) > 0
             THEN (IF Len(m.Names.s) = 0 THEN <<>>
                   ELSE IF NamesConflict(m.Names.s, e.Names.s) THEN <<EmptySetErr>>
                   ELSE <<>>)
        ELSE IF /\ Cardinality(excludeNamespaces) > 0
                /\ (Len(m.Namespaces.s) = 0 \/ ~HasAll(excludeNamespaces, m.Namespaces.s))
             THEN <<>>
        ELSE IF /\ Cardinality(excludeKinds) > 0
                /\ (Len(m.Kinds.s) = 0 \/ ~HasAll(excludeKinds, m.Kinds.s))
             THEN <<>>
        ELSE IF /\ ~m.Selector.isNil /\ ~e.Selector.isNil
                /\ SelectorReturns(m.Selector, e.Selector)
             THEN <<>>
        ELSE IF /\ ~m.NamespaceSelector.isNil /\ ~e.NamespaceSelector.isNil
                /\ SelectorReturns(m.NamespaceSelector, e.NamespaceSelector)
             THEN <<>>
        ELSE IF m.Selector.isNil # e.Selector.isNil THEN <<>>
        ELSE IF m.NamespaceSelector.isNil # e.NamespaceSelector.isNil THEN <<>>
        ELSE IF /\ ~m.Annotations.isNil /\ ~e.Annotations.isNil
                /\ m.Annotations # e.Annotations
             THEN <<>>
        ELSE IF m.Annotations.isNil # e.Annotations.isNil THEN <<>>
        ELSE <<EmptySetErr>>

(***************************************************************************)
(* Validate.  The structural validation of match and of exclude belongs    *)
(* to MatchResources.Validate; its two results are inputs of the call.     *)
(***************************************************************************)
\* variant of Validate that stops at the first phase that reports errors
Validate_ShortCircuit(r, matchErrs, excludeErrs) ==
    IF ValidateRuleType(r) # <<>> THEN ValidateRuleType(r)
    ELSE IF ValidateMathExcludeConflict(r) # <<>> THEN ValidateMathExcludeConflict(r)
    ELSE IF matchErrs # <<>> THEN matchErrs
    ELSE excludeErrs

Validate(r, matchErrs, excludeErrs) ==
    LET errs1 == <<>> \o ValidateRuleType(r)
        errs2 == errs1 \o ValidateMathExcludeConflict(r)
        errs3 == errs2 \o matchErrs
        errs4 == errs3 \o excludeErrs
    IN  errs4

(***************************************************************************)
(* Input space: the rules the operations are applied to.  The rules are    *)
(* drawn in families, each varying the fields one part of the code reads   *)
(* on both the match and the exclude side.                                 *)
(***************************************************************************)
KindVals == {"Pod", "Deployment"}

\* name patterns as character sequences: "a", "b", "ab", "*", "a*", "?"
NameSliceVals ==
    {NilSlice,
     MkSlice(<< <<"a">> >>),
     MkSlice(<< <<"a">>, <<"b">> >>),
     MkSlice(<< <<"*">> >>),
     MkSlice(<< <<"a", "*">>, <<"b">> >>)}

SingleNameVals == {<<>>, <<"a">>, <<"a", "b">>, <<"?">>, <<"a", "*">>}

NamespaceSliceVals ==
    {NilSlice, MkSlice(<<"prod">>), MkSlice(<<"prod", "staging">>)}

RoleSliceVals ==
    {NilSlice, MkSlice(<<"r1">>), MkSlice(<<"r1", "r2">>)}

SubjectSliceVals ==
    {NilSlice,
     MkSlice(<<MkSubject("User", "u1")>>),
     MkSlice(<<MkSubject("User", "u1"), MkSubject("Group", "g1")>>)}

ExprIn == MkExpr("k1", "In", MkSlice(<<"v1">>))

ExprExists == MkExpr("k2", "Exists", NilSlice)

SelectorVals ==
    {NilSelector,
     MkSelector(NilMap, NilSlice),
     MkSelector(MkMap({<<"k1", "v1">>}), NilSlice),
     MkSelector(MkMap({<<"k1", "v1">>, <<"k2", "v2">>}), NilSlice),
     MkSelector(NilMap, MkSlice(<<ExprIn>>)),
     MkSelector(NilMap, MkSlice(<<ExprIn, ExprExists>>))}

NamespaceSelectorVals ==
    {NilSelector,
     MkSelector(MkMap({<<"k1", "v1">>}), NilSlice),
     MkSelector(MkMap({<<"k1", "v1">>, <<"k2", "">>}), NilSlice)}

AnnotationVals ==
    {NilMap, MkMap({}), MkMap({<<"k1", "v1">>})}

\* the entries of an any / all list
FilterVals ==
    {[EmptyResourceFilter EXCEPT !.Kinds = MkSlice(<<"Deployment">>)],
     [EmptyResourceFilter EXCEPT !.Kinds = MkSlice(<<"Pod", "Job">>),
                                 !.Namespaces = MkSlice(<<"prod">>)]}

\* kinds and names lists
ListBlocks ==
    {[EmptyMatchResources EXCEPT !.Kinds = k, !.Names = n] :
        k \in SlicesOf(KindVals, MaxLen), n \in NameSliceVals}

\* namespaces, the single name and kinds
NamespaceBlocks ==
    {[EmptyMatchResources EXCEPT !.Namespaces = ns, !.Name = n, !.Kinds = k] :
        ns \in NamespaceSliceVals, n \in SingleNameVals,
        k \in {NilSlice, MkSlice(<<"Pod">>)}}

\* roles, cluster roles and subjects
UserInfoBlocks ==
    {[EmptyMatchResources EXCEPT !.Roles = ro, !.ClusterRoles = cr, !.Subjects = su] :
        ro \in RoleSliceVals, cr \in RoleSliceVals, su \in SubjectSliceVals}

\* label selector, namespace selector and annotations
SelectorBlocks ==
    {[EmptyMatchResources EXCEPT !.Selector = se, !.NamespaceSelector = ns,
                                 !.Annotations = an] :
        se \in SelectorVals, ns \in NamespaceSelectorVals, an \in AnnotationVals}

\* any and all lists next to direct kinds
CompositeBlocks ==
    {[EmptyMatchResources EXCEPT !.Any = an, !.All = al, !.Kinds = k] :
        an \in SlicesOf(FilterVals, MaxAny),
        al \in SlicesOf(FilterVals, 1),
        k \in {NilSlice, MkSlice(<<"Pod">>)}}

\* the pairs <<match, exclude>> of the rules
BlockPairs ==
    (ListBlocks \X ListBlocks) \cup (NamespaceBlocks \X NamespaceBlocks)
        \cup (UserInfoBlocks \X UserInfoBlocks) \cup (SelectorBlocks \X SelectorBlocks)
        \cup (CompositeBlocks \X CompositeBlocks)

\* r.VerifyImages: absent, present with zero entries, present with an entry
VerifyImagesVals == {NilSlice, MkSlice(<<>>), MkSlice(<<[image |-> "img"]>>)}

EffectVals == {ZeroEffect, SomeEffect}

MkRule(m, e, mu, va, ge, vi) ==
    [Name |-> "rule", MatchResources |-> m, ExcludeResources |-> e,
     Mutation |-> mu, Validation |-> va, Generation |-> ge, VerifyImages |-> vi]

\* every combination of the four effects, on a few match / exclude pairs
EffectRules ==
    {MkRule(m, e, mu, va, ge, vi) :
        m \in {EmptyMatchResources, [EmptyMatchResources EXCEPT !.Kinds = MkSlice(<<"Pod">>)]},
        e \in {EmptyMatchResources, [EmptyMatchResources EXCEPT !.Kinds = MkSlice(<<"Pod">>)]},
        mu \in EffectVals, va \in EffectVals, ge \in EffectVals, vi \in VerifyImagesVals}

\* rules with one effect (validate) over every match / exclude pair
SelectionRules ==
    {MkRule(p[1], p[2], ZeroEffect, SomeEffect, ZeroEffect, NilSlice) : p \in BlockPairs}

Rules == EffectRules \cup SelectionRules

\* the backing array of a kinds slice: its entries and `spare` unused slots.
\* A nil slice has no array.
BackingArray(sl, spare) ==
    IF sl.isNil THEN <<>> ELSE sl.s \o [i \in 1..spare |-> ""]

\* what MatchResources.Validate may return for the match and the exclude path
MatchErrVals == {<<>>, <<"match: kind not found">>,
                 <<"match: any and all together", "match: kind not found">>}

ExcludeErrVals == {<<>>, <<"exclude: kind not found">>}

\* how often a kind accessor is called on one rule
MaxCalls == 2

Init ==
    /\ rule \in Rules
    /\ \E spare \in 0..MaxSpare :
          /\ spare > 0 => rule.MatchResources \in CompositeBlocks
          /\ heap = [matchKinds |-> BackingArray(rule.MatchResources.Kinds, spare),
                     excludeKinds |-> BackingArray(rule.ExcludeResources.Kinds, spare)]
    /\ op = "init"
    /\ errs = <<>>
    /\ kinds = <<>>
    /\ prevKinds = <<>>
    /\ calls = 0
    /\ matchIn = <<>>
    /\ excludeIn = <<>>

(***************************************************************************)
(* One action per operation of Rule.                                       *)
(***************************************************************************)
DoValidateRuleType ==
    /\ op = "init"
    /\ op' = "ValidateRuleType"
    /\ errs' = ValidateRuleType(rule)
    /\ UNCHANGED <<rule, heap, kinds, prevKinds, calls, matchIn, excludeIn>>

DoValidateMathExcludeConflict ==
    /\ op = "init"
    /\ op' = "ValidateMathExcludeConflict"
    /\ errs' = ValidateMathExcludeConflict(rule)
    /\ UNCHANGED <<rule, heap, kinds, prevKinds, calls, matchIn, excludeIn>>

DoValidate ==
    /\ op = "init"
    /\ \E me \in MatchErrVals, ee \in ExcludeErrVals :
          /\ matchIn' = me
          /\ excludeIn' = ee
          /\ errs' = Validate(rule, me, ee)
    /\ op' = "Validate"
    /\ UNCHANGED <<rule, heap, kinds, prevKinds, calls>>

DoMatchKinds ==
    /\ op = "init" \/ (op = "MatchKinds" /\ calls < MaxCalls)
    /\ LET res == MatchKinds(rule, heap)
       IN  /\ kinds' = Window(res)
           /\ heap' = [heap EXCEPT !.matchKinds = res.base]
    /\ prevKinds' = kinds
    /\ calls' = calls + 1
    /\ op' = "MatchKinds"
    /\ UNCHANGED <<rule, errs, matchIn, excludeIn>>

DoExcludeKinds ==
    /\ op = "init" \/ (op = "ExcludeKinds" /\ calls < MaxCalls)
    /\ LET res == ExcludeKinds(rule, heap)
       IN  /\ kinds' = Window(res)
           /\ heap' = [heap EXCEPT !.excludeKinds = res.base]
    /\ prevKinds' = kinds
    /\ calls' = calls + 1
    /\ op' = "ExcludeKinds"
    /\ UNCHANGED <<rule, errs, matchIn, excludeIn>>

Next ==
    \/ DoValidateRuleType
    \/ DoValidateMathExcludeConflict
    \/ DoValidate
    \/ DoMatchKinds
    \/ DoExcludeKinds

Spec == Init /\ [][Next]_vars

(***************************************************************************)
(* Vocabulary of the properties.                                           *)
(***************************************************************************)
\* number of effect fields that are non-empty
NonEmptyEffects(r) ==
    Cardinality({f \in {"Mutation", "Validation", "Generation"} : r[f] # ZeroEffect})
        + (IF Len(r.VerifyImages.s) > 0 THEN 1 ELSE 0)

\* a selector that is absent, or present without labels and expressions
SelectorEmpty(sel) ==
    sel.isNil \/ (sel.MatchLabels.m = {} /\ Len(sel.MatchExpressions.s) = 0)

\* every field of the block is absent or present with zero entries
EntirelyEmpty(b) ==
    /\ \A f \in {"Any", "All", "Roles", "ClusterRoles", "Subjects", "Kinds",
                 "Names", "Namespaces"} : Len(b[f].s) = 0
    /\ b.Name = <<>>
    /\ b.Annotations.m = {}
    /\ SelectorEmpty(b.Selector)
    /\ SelectorEmpty(b.NamespaceSelector)

\* the kinds of the entries of an any / all list, in list order
RECURSIVE FlatKinds(_)
FlatKinds(entries) ==
    IF entries = <<>> THEN <<>> ELSE Head(entries).Kinds.s \o FlatKinds(Tail(entries))

\* direct kinds, then the kinds of `all`, then the kinds of `any`
AllKindsOf(b) == b.Kinds.s \o FlatKinds(b.All.s) \o FlatKinds(b.Any.s)

\* the match list of a dimension is non-empty and contained in the exclude list
Contained(m, e, f) == Len(m[f].s) > 0 /\ Range(m[f].s) \subseteq Range(e[f].s)

Conflicted == op = "ValidateMathExcludeConflict" /\ errs # <<>>

(***************************************************************************)
(* A bounded universe of resources, and what it means for a resource to    *)
(* satisfy a block: the direct fields are conjunctive constraints, an      *)
(* empty field is unconstrained, the entries of a list are alternatives,   *)
(* the entries of `any` are alternatives and those of `all` conjunctive.   *)
(***************************************************************************)
LabelMaps == {{}, {<<"k1", "v1">>}, {<<"k2", "v2">>}, {<<"k1", "v1">>, <<"k2", "v2">>}}

Resources ==
    [kind : {"Pod", "Deployment"}, namespace : {"prod", "dev"},
     name : {<<"a">>, <<"c">>}, labels : LabelMaps,
     nsLabels : {{}, {<<"k1", "v1">>}}, annotations : {{}, {<<"k1", "v1">>}},
     roles : {{}, {"r1"}}, clusterRoles : {{}, {"r1"}},
     subject : {MkSubject("User", "u1"), MkSubject("User", "u2")}]

ExprHolds(x, labels) ==
    IF x.operator = "In"
    THEN \E p \in labels : p[1] = x.key /\ p[2] \in Range(x.values.s)
    ELSE \E p \in labels : p[1] = x.key

SelectorHolds(sel, labels) ==
    \/ sel.isNil
    \/ /\ sel.MatchLabels.m \subseteq labels
       /\ \A i \in 1..Len(sel.MatchExpressions.s) : ExprHolds(sel.MatchExpressions.s[i], labels)

FilterHolds(f, res) ==
    /\ Len(f.Kinds.s) = 0 \/ res.kind \in Range(f.Kinds.s)
    /\ Len(f.Namespaces.s) = 0 \/ res.namespace \in Range(f.Namespaces.s)
    /\ f.Name = <<>> \/ WildcardMatch(f.Name, res.name)
    /\ Len(f.Names.s) = 0 \/ \E i \in 1..Len(f.Names.s) : WildcardMatch(f.Names.s[i], res.name)
    /\ SelectorHolds(f.Selector, res.labels)
    /\ SelectorHolds(f.NamespaceSelector, res.nsLabels)
    /\ f.Annotations.m \subseteq res.annotations
    /\ Len(f.Roles.s) = 0 \/ Range(f.Roles.s) \cap res.roles # {}
    /\ Len(f.ClusterRoles.s) = 0 \/ Range(f.ClusterRoles.s) \cap res.clusterRoles # {}
    /\ Len(f.Subjects.s) = 0 \/ res.subject \in Range(f.Subjects.s)

BlockHolds(b, res) ==
    /\ FilterHolds(b, res)
    /\ Len(b.Any.s) = 0 \/ \E i \in 1..Len(b.Any.s) : FilterHolds(b.Any.s[i], res)
    /\ \A i \in 1..Len(b.All.s) : FilterHolds(b.All.s[i], res)

\* the rule selects the resource: it satisfies match and not exclude
Selects(r, res) == BlockHolds(r.MatchResources, res) /\ ~BlockHolds(r.ExcludeResources, res)

(***************************************************************************)
(* Properties.                                                             *)
(***************************************************************************)

\* C1: ValidateRuleType returns zero errors when exactly one of mutate,
\* validate, generate and verifyImages is non-empty (a verifyImages list
\* that is absent or present with zero entries being empty), and exactly
\* one error when none or two or more are non-empty.
C1_OneEffectNoErrorElseOne ==
    op = "ValidateRuleType" =>
        IF NonEmptyEffects(rule) = 1 THEN Len(errs) = 0 ELSE Len(errs) = 1

\* C2: ValidateMathExcludeConflict returns no error for a rule whose exclude
\* block is entirely empty (every field absent or present with zero
\* entries), whatever the match block contains.
C2_EmptyExcludeNoError ==
    (op = "ValidateMathExcludeConflict" /\ EntirelyEmpty(rule.ExcludeResources))
        => errs = <<>>

\* C3: whenever ValidateMathExcludeConflict returns the empty-set error the
\* rule selects no resource of the universe: none satisfies the match block
\* without also satisfying the exclude block.
C3_ErrorOnlyIfNothingSelected ==
    Conflicted => ~(\E res \in Resources : Selects(rule, res))

\* C4: on the direct-field path (no `all` list populated, match.any and
\* exclude.any not both populated) an error is returned only if every
\* populated exclude dimension among roles, clusterRoles, subjects,
\* namespaces and kinds contains the corresponding match dimension, also
\* when exclude.names and match.names are both non-empty.
C4_ErrorOnlyIfDimensionsContained ==
    LET m == rule.MatchResources
        e == rule.ExcludeResources
    IN  (/\ Conflicted
         /\ Len(m.All.s) = 0 /\ Len(e.All.s) = 0
         /\ ~(Len(m.Any.s) > 0 /\ Len(e.Any.s) > 0))
        => \A f \in {"Roles", "ClusterRoles", "Subjects", "Namespaces", "Kinds"} :
               Len(e[f].s) > 0 => Contained(m, e, f)

\* C5: ValidateMathExcludeConflict returns no error whenever match.all or
\* exclude.all has at least one entry, whatever else the blocks contain.
C5_AllPopulatedNoError ==
    (/\ op = "ValidateMathExcludeConflict"
     /\ (Len(rule.MatchResources.All.s) > 0 \/ Len(rule.ExcludeResources.All.s) > 0))
        => errs = <<>>

\* C5 witness: the conflict check has run on a rule whose match and exclude
\* blocks are identical, with `all` populated next to direct kinds, and has
\* returned no error.
C5_Witness ==
    /\ op = "ValidateMathExcludeConflict"
    /\ rule.MatchResources = rule.ExcludeResources
    /\ Len(rule.MatchResources.All.s) > 0
    /\ Len(rule.MatchResources.Kinds.s) > 0
    /\ errs = <<>>

\* C6: Validate returns the errors of ValidateRuleType, then those of
\* ValidateMathExcludeConflict, then those of the validation of match, then
\* those of the validation of exclude: every phase contributes all of its
\* errors at its place and nothing else is returned.
C6_ValidateConcatenatesPhases ==
    op = "Validate" =>
        LET a == ValidateRuleType(rule)
            b == ValidateMathExcludeConflict(rule)
            na == Len(a)
            nb == na + Len(b)
            nc == nb + Len(matchIn)
        IN  /\ Len(errs) = nc + Len(excludeIn)
            /\ \A i \in 1..Len(errs) :
                  errs[i] = IF i <= na THEN a[i]
                            ELSE IF i <= nb THEN b[i - na]
                            ELSE IF i <= nc THEN matchIn[i - nb]
                            ELSE excludeIn[i - nc]

\* C6 witness: Validate has run on a rule for which all four phases report
\* an error.
C6_Witness ==
    /\ op = "Validate"
    /\ ValidateRuleType(rule) # <<>>
    /\ ValidateMathExcludeConflict(rule) # <<>>
    /\ matchIn # <<>>
    /\ excludeIn # <<>>
    /\ Len(errs) >= 4

\* C7: MatchKinds (resp. ExcludeKinds) returns the block's direct kinds,
\* then the kinds of every `all` entry in order, then the kinds of every
\* `any` entry in order, duplicates kept; the call leaves the kinds the
\* rule's own slices show unchanged and a second call returns the same
\* sequence.
C7_KindsInOrderRuleUnchanged ==
    /\ op = "MatchKinds" => kinds = AllKindsOf(rule.MatchResources)
    /\ op = "ExcludeKinds" => kinds = AllKindsOf(rule.ExcludeResources)
    /\ SubSeq(heap.matchKinds, 1, Len(rule.MatchResources.Kinds.s))
          = rule.MatchResources.Kinds.s
    /\ SubSeq(heap.excludeKinds, 1, Len(rule.ExcludeResources.Kinds.s))
          = rule.ExcludeResources.Kinds.s
    /\ calls >= 2 => kinds = prevKinds

\* C7 witness: MatchKinds has been called twice on a rule with direct
\* kinds, `all` and `any` entries, and the call has written into the spare
\* capacity of the array behind the rule's direct kinds.
C7_Witness ==
    /\ op = "MatchKinds"
    /\ calls = 2
    /\ Len(rule.MatchResources.Kinds.s) > 0
    /\ Len(rule.MatchResources.All.s) > 0
    /\ Len(rule.MatchResources.Any.s) > 0
    /\ Len(heap.matchKinds) > Len(rule.MatchResources.Kinds.s)
    /\ heap.matchKinds[Len(rule.MatchResources.Kinds.s) + 1] # ""
    /\ Len(kinds) >= 3

\* C8: when match.any and exclude.any are both non-empty and no `all` list
\* is populated, an error is returned only if every match.any entry is
\* identical to some exclude.any entry.
C8_AnyErrorOnlyIfEveryEntryCovered ==
    LET m == rule.MatchResources
        e == rule.ExcludeResources
    IN  (/\ Conflicted
         /\ Len(m.All.s) = 0 /\ Len(e.All.s) = 0
         /\ Len(m.Any.s) > 0 /\ Len(e.Any.s) > 0)
        => \A i \in 1..Len(m.Any.s) : \E j \in 1..Len(e.Any.s) : m.Any.s[i] = e.Any.s[j]

\* C9: when exclude.names and match.names are both non-empty, no all / any
\* list is populated and roles, clusterRoles, subjects and the single name
\* do not already decide "no conflict", exactly one error is returned if
\* and only if every match name is matched by some exclude pattern; when
\* exclude.names is non-empty and match.names is empty no error is returned.
C9_NamesErrorIffEveryNameCovered ==
    LET m == rule.MatchResources
        e == rule.ExcludeResources
        earlierPass ==
            /\ \A f \in {"Roles", "ClusterRoles", "Subjects"} :
                  Len(e[f].s) > 0 => Contained(m, e, f)
            /\ e.Name = <<>> \/ WildcardMatch(e.Name, m.Name)
        everyCovered ==
            \A i \in 1..Len(m.Names.s) : \E j \in 1..Len(e.Names.s) :
                WildcardMatch(e.Names.s[j], m.Names.s[i])
    IN  (/\ op = "ValidateMathExcludeConflict"
         /\ \A f \in {"Any", "All"} : Len(m[f].s) = 0 /\ Len(e[f].s) = 0
         /\ Len(e.Names.s) > 0
         /\ earlierPass)
        => IF Len(m.Names.s) = 0 THEN errs = <<>>
           ELSE (Len(errs) = 1) <=> everyCovered

\* C10: an error is returned only if, for the label selector and for the
\* namespace selector, either neither block defines it, or both define it
\* and every matchExpression and every matchLabels entry of the exclude
\* selector is present (with an equal value) in the match selector.
C10_SelectorErrorOnlyIfExcludeWithinMatch ==
    LET m == rule.MatchResources
        e == rule.ExcludeResources
        within(ms, es) ==
            /\ Range(es.MatchExpressions.s) \subseteq Range(ms.MatchExpressions.s)
            /\ es.MatchLabels.m \subseteq ms.MatchLabels.m
    IN  Conflicted =>
            \A f \in {"Selector", "NamespaceSelector"} :
                /\ m[f].isNil = e[f].isNil
                /\ ~m[f].isNil => within(m[f], e[f])

====
